---- MODULE Spec2Model ----
(***************************************************************************)
(* A model of the extractor package of code-agent-insights:                 *)
(*   learning_extractor.py  LearningExtractor.build_session_context and    *)
(*                          LearningExtractor.extract                      *)
(*   embeddings.py          VectorStore (serialisation, upsert, search)    *)
(*   cli.py                 run_extract and run_embed                      *)
(*                                                                         *)
(* Strings whose only observable in a property is their length are         *)
(* modelled by that length (a natural number); the fixed texts of the      *)
(* source ("Errors:\n", "[User]: ", ...) appear as their lengths.          *)
(***************************************************************************)
EXTENDS Integers, Sequences, FiniteSets, TLC

VARIABLES
    \* ---- build_session_context: arguments
    events, tool_calls, errors, skill_invocations, sub_agents, modes, max_chars,
    \* ---- build_session_context: locals and position
    parts, messages, char_count, char_limit, evi, cpc, context,
    \* ---- extract: argument, the reply (with the JSON document and the wrapping it
    \*      was made from), locals, position and outcome
    min_confidence, doc, wrap, text, result, xpc, outcome,
    \* ---- VectorStore: the two tables (rows in rowid order), the vector last
    \*      passed for each (kind, id), the last call and what a search returned
    learning_embeddings, session_embeddings, sent, call, results,
    \* ---- cli: the insights database (sessions, learnings), the command that
    \*      runs and its position
    sessions, learnings, rpc, queue, etype, batch_size, erows, epos,
    \* ---- cli: what the runs did (history, read by the properties only)
    extract_calls, used_session_id, run_units, run_done, run_failed, run_wrote, run_end

ctxVars == <<events, tool_calls, errors, skill_invocations, sub_agents, modes,
             max_chars, parts, messages, char_count, char_limit, evi, cpc, context>>

exVars == <<min_confidence, doc, wrap, text, result, xpc, outcome>>

stVars == <<learning_embeddings, session_embeddings, sent, call, results>>

cliVars == <<sessions, learnings, rpc, queue, etype, batch_size, erows, epos,
             extract_calls, used_session_id, run_units, run_done, run_failed,
             run_wrote, run_end>>

vars == <<ctxVars, exVars, stVars, cliVars>>

notCtx == <<exVars, stVars, cliVars>>
notEx == <<ctxVars, stVars, cliVars>>
notSt == <<ctxVars, exVars, cliVars>>

(***************************************************************************)
(* Bounds of the model.                                                    *)
(***************************************************************************)
MaxEvents == 3
MaxToolCalls == 1
MaxErrors == 1
MaxSkills == 1
MaxSubAgents == 1
MaxLearnings == 3       \* learnings in one reply
MaxSnippet == 3         \* tokens of a learning's content that holds backticks
MaxLimit == 4           \* largest limit passed to search_similar_learnings
MaxCalls == 4           \* calls of extract over all the runs of the cli

(***************************************************************************)
(* Generic helpers (Python built-ins used by the source).                  *)
(***************************************************************************)
None == [none |-> TRUE]

Min(a, b) == IF a <= b THEN a ELSE b

\* seq[:n]
Take(seq, n) == SubSeq(seq, 1, Min(n, Len(seq)))

\* sum(...) over a sequence of numbers
RECURSIVE SumSeq(_)
SumSeq(seq) == IF seq = <<>> THEN 0 ELSE Head(seq) + SumSeq(Tail(seq))

\* len(str(n)) for n >= 0
RECURSIVE Digits(_)
Digits(n) == IF n < 10 THEN 1 ELSE 1 + Digits(n \div 10)

\* len(sep.join(items)) where items are given by their lengths
JoinLen(lens, sepLen) ==
    IF lens = <<>> THEN 0 ELSE SumSeq(lens) + sepLen * (Len(lens) - 1)

\* All sequences over S of length at most n
SeqsUpTo(S, n) == UNION {[1..k -> S] : k \in 0..n}

(***************************************************************************)
(* build_session_context (learning_extractor.py 97-179)                    *)
(***************************************************************************)
MessageCap == 1000      \* event.get("content", "")[:1000]
SafetyMargin == 500     \* char_limit = max_chars - char_count - 500
ErrorCap == 200         \* e.get("error_message", "")[:200]
ErrorsShown == 10       \* errors[:10]
FilesShown == 20        \* sorted(files)[:20]
ToolsShown == 10        \* sorted(tool_counts.items(), ...)[:10]
SubAgentsShown == 3     \* sub_agents[:3]
TaskCap == 100          \* sa.get('task_description', '')[:100]
DefaultMaxChars == 32000

\* Inputs.  A path is [id, len]: sorted by id, measured by len.
NoPath == [id |-> 0, len |-> 0]
PathValues == {NoPath, [id |-> 1, len |-> 30], [id |-> 2, len |-> 700]}
ToolNames == {"Read"}
ToolCallValues == [path : PathValues, tool_name : ToolNames]
ErrorValues == {250}                 \* len(error_message)
SkillValues == {"tdd"}
SubAgentValues == {120}              \* len(task_description)
ModeValues == {None,
               [used_plan_mode |-> TRUE, used_thinking |-> TRUE,
                thinking_block_count |-> 12]}
EventValues == [type : {"user_message", "assistant_message"}, content : {10, 100, 1200}]
                 \cup [type : {"tool_result"}, content : {10}]
MaxCharsValues == {100, 1000, DefaultMaxChars}

\* sorted(files): the distinct paths in ascending order
RECURSIVE SortedPaths(_)
SortedPaths(S) ==
    IF S = {} THEN <<>>
    ELSE LET p == CHOOSE x \in S : \A y \in S : x.id <= y.id
         IN <<p>> \o SortedPaths(S \ {p})

\* lines 110-123: the "Files touched: ..." part, or <<>> when no file
FilesPart(tcs) ==
    LET files == {tcs[i].path : i \in {j \in 1..Len(tcs) : tcs[j].path # NoPath}}
        shown == Take(SortedPaths(files), FilesShown)
    IN IF files = {} THEN <<>>
       ELSE <<15 + JoinLen([i \in 1..Len(shown) |-> shown[i].len], 2)>>

\* lines 126-128: "Errors:\n" + "\n".join("- " + m[:200])
ErrorsPart(errs) ==
    LET shown == Take(errs, ErrorsShown)
        lines == [i \in 1..Len(shown) |-> 2 + Min(shown[i], ErrorCap)]
    IN IF errs = <<>> THEN <<>> ELSE <<8 + JoinLen(lines, 1)>>

\* lines 131-134: tool_counts, as the names in first-occurrence order
RECURSIVE ToolOrder(_)
ToolOrder(tcs) ==
    IF tcs = <<>> THEN <<>>
    ELSE LET rest == ToolOrder(SubSeq(tcs, 1, Len(tcs) - 1))
             n == tcs[Len(tcs)].tool_name
         IN IF \E i \in 1..Len(rest) : rest[i] = n THEN rest ELSE Append(rest, n)

ToolCount(tcs, n) == Cardinality({i \in 1..Len(tcs) : tcs[i].tool_name = n})

\* sorted(items, key=lambda x: -x[1]): stable insertion sort, descending count
RECURSIVE SortByCount(_, _)
SortByCount(names, tcs) ==
    IF names = <<>> THEN <<>>
    ELSE LET rest == SortByCount(SubSeq(names, 1, Len(names) - 1), tcs)
             x == names[Len(names)]
             k == Cardinality({i \in 1..Len(rest) :
                                 ToolCount(tcs, rest[i]) >= ToolCount(tcs, x)})
         IN SubSeq(rest, 1, k) \o <<x>> \o SubSeq(rest, k + 1, Len(rest))

\* lines 135-136: "Tools: " + ", ".join(f"{k}({v})")
ToolsPart(tcs) ==
    LET shown == Take(SortByCount(ToolOrder(tcs), tcs), ToolsShown)
        items == [i \in 1..Len(shown) |->
                    Len(shown[i]) + 2 + Digits(ToolCount(tcs, shown[i]))]
    IN IF tcs = <<>> THEN <<>> ELSE <<7 + JoinLen(items, 2)>>

\* lines 139-141: "Skills used: " + ", ".join(set(skills))
RECURSIVE SetLen(_)
SetLen(S) == IF S = {} THEN 0
             ELSE LET s == CHOOSE x \in S : TRUE IN Len(s) + SetLen(S \ {s})

SkillsPart(sk) ==
    LET names == {sk[i] : i \in 1..Len(sk)}
    IN IF sk = <<>> THEN <<>>
       ELSE <<13 + SetLen(names) + 2 * (Cardinality(names) - 1)>>

\* lines 144-147: "Sub-agents spawned: N", then one part per shown task
SubAgentsPart(sas) ==
    LET shown == Take(sas, SubAgentsShown)
    IN IF sas = <<>> THEN <<>>
       ELSE <<20 + Digits(Len(sas))>>
            \o [i \in 1..Len(shown) |-> 10 + Min(shown[i], TaskCap)]

\* lines 150-157: "Modes: " + ", ".join(mode_info)
ModesPart(m) ==
    LET plan == IF m.used_plan_mode THEN <<9>> ELSE <<>>
        think == IF m.used_thinking
                 THEN <<10 + Digits(m.thinking_block_count) + 8>> ELSE <<>>
        mode_info == plan \o think
    IN IF m = None THEN <<>>
       ELSE IF mode_info = <<>> THEN <<>> ELSE <<7 + JoinLen(mode_info, 2)>>

\* lines 108-157: the parts that precede the conversation, in order
SectionParts(tcs, errs, sk, sas, m) ==
    FilesPart(tcs) \o ErrorsPart(errs) \o ToolsPart(tcs) \o SkillsPart(sk)
        \o SubAgentsPart(sas) \o ModesPart(m)

\* lines 165-168: is the event a message, and the labelled message
IsMessage(e) == e.type \in {"user_message", "assistant_message"}

RoleOf(e) == IF e.type = "user_message" THEN "User" ELSE "Claude"

\* msg = f"[{role}]: {content}" with content cut to 1000 characters
Msg(e, i) == [role |-> RoleOf(e),
              len  |-> 1 + Len(RoleOf(e)) + 3 + Min(e.content, MessageCap),
              seq  |-> i]

\* line 170: the test that ends the loop
OverBudget(count, msgLen, limit) == count + msgLen > limit

\* line 177: "Conversation:\n" + "\n".join(messages)
ConversationPart(msgs) ==
    IF msgs = <<>> THEN <<>>
    ELSE <<14 + JoinLen([i \in 1..Len(msgs) |-> msgs[i].len], 1)>>

\* line 179: len("\n\n".join(parts))
JoinedLen(ps) == JoinLen(ps, 2)

CtxInit ==
    /\ events \in SeqsUpTo(EventValues, MaxEvents)
    /\ tool_calls \in SeqsUpTo(ToolCallValues, MaxToolCalls)
    /\ errors \in SeqsUpTo(ErrorValues, MaxErrors)
    /\ skill_invocations \in SeqsUpTo(SkillValues, MaxSkills)
    /\ sub_agents \in SeqsUpTo(SubAgentValues, MaxSubAgents)
    /\ modes \in ModeValues
    /\ max_chars \in MaxCharsValues
    /\ parts = <<>>
    /\ messages = <<>>
    /\ char_count = 0
    /\ char_limit = 0
    /\ evi = 1
    /\ cpc = "sections"
    /\ context = None

CtxIdle ==
    /\ events = <<>>
    /\ tool_calls = <<>>
    /\ errors = <<>>
    /\ skill_invocations = <<>>
    /\ sub_agents = <<>>
    /\ modes = None
    /\ max_chars = DefaultMaxChars
    /\ parts = <<>>
    /\ messages = <<>>
    /\ char_count = 0
    /\ char_limit = 0
    /\ evi = 1
    /\ cpc = "idle"
    /\ context = None

\* lines 108-162
BuildSections ==
    /\ cpc = "sections"
    /\ LET ps == SectionParts(tool_calls, errors, skill_invocations, sub_agents, modes)
       IN /\ parts' = ps
          /\ char_count' = SumSeq(ps)
          /\ char_limit' = max_chars - SumSeq(ps) - SafetyMargin
    /\ messages' = <<>>
    /\ cpc' = "loop"
    /\ UNCHANGED <<events, tool_calls, errors, skill_invocations, sub_agents, modes,
                   max_chars, evi, context>>
    /\ UNCHANGED notCtx

\* lines 164-165: an event that is no user/assistant message is passed over
SkipEvent ==
    /\ cpc = "loop"
    /\ evi <= Len(events)
    /\ ~IsMessage(events[evi])
    /\ evi' = evi + 1
    /\ UNCHANGED <<events, tool_calls, errors, skill_invocations, sub_agents, modes,
                   max_chars, parts, messages, char_count, char_limit, cpc, context>>
    /\ UNCHANGED notCtx

\* lines 166-174, the message fits
AppendMessage ==
    /\ cpc = "loop"
    /\ evi <= Len(events)
    /\ IsMessage(events[evi])
    /\ LET msg == Msg(events[evi], evi)
       IN /\ ~OverBudget(char_count, msg.len, char_limit)
          /\ messages' = Append(messages, msg)
          /\ char_count' = char_count + msg.len
    /\ evi' = evi + 1
    /\ UNCHANGED <<events, tool_calls, errors, skill_invocations, sub_agents, modes,
                   max_chars, parts, char_limit, cpc, context>>
    /\ UNCHANGED notCtx

\* lines 170-171: break
BreakLoop ==
    /\ cpc = "loop"
    /\ evi <= Len(events)
    /\ IsMessage(events[evi])
    /\ OverBudget(char_count, Msg(events[evi], evi).len, char_limit)
    /\ cpc' = "join"
    /\ UNCHANGED <<events, tool_calls, errors, skill_invocations, sub_agents, modes,
                   max_chars, parts, messages, char_count, char_limit, evi, context>>
    /\ UNCHANGED notCtx

\* the for loop runs out of events
EndLoop ==
    /\ cpc = "loop"
    /\ evi > Len(events)
    /\ cpc' = "join"
    /\ UNCHANGED <<events, tool_calls, errors, skill_invocations, sub_agents, modes,
                   max_chars, parts, messages, char_count, char_limit, evi, context>>
    /\ UNCHANGED notCtx

\* lines 176-179
JoinParts ==
    /\ cpc = "join"
    /\ LET ps == parts \o ConversationPart(messages)
       IN /\ parts' = ps
          /\ context' = [len |-> JoinedLen(ps), conversation |-> messages]
    /\ cpc' = "done"
    /\ UNCHANGED <<events, tool_calls, errors, skill_invocations, sub_agents, modes,
                   max_chars, messages, char_count, char_limit, evi>>
    /\ UNCHANGED notCtx

CtxNext ==
    \/ BuildSections
    \/ SkipEvent
    \/ AppendMessage
    \/ BreakLoop
    \/ EndLoop
    \/ JoinParts

(***************************************************************************)
(* Claims about build_session_context                                      *)
(***************************************************************************)

\* C1: the string returned by build_session_context is never longer than
\* max_chars, whatever the inputs (headers, separators and newlines counted).
C1_OutputWithinMaxChars ==
    cpc = "done" => context.len <= max_chars

\* C9: the conversation section is exactly the longest prefix of the labelled
\* user/assistant messages whose running total stays within
\* max_chars - 500 - S, S being the length of the preceding sections counted once.
C9_ConversationIsBudgetPrefix ==
    cpc = "done" =>
        LET idx == {i \in 1..Len(events) : IsMessage(events[i])}
            nth(k) == CHOOSE i \in idx : Cardinality({j \in idx : j <= i}) = k
            all == [k \in 1..Cardinality(idx) |-> Msg(events[nth(k)], nth(k))]
            S == SumSeq(SectionParts(tool_calls, errors, skill_invocations,
                                     sub_agents, modes))
            budget == max_chars - SafetyMargin - S
            total(k) == SumSeq([i \in 1..k |-> all[i].len])
            fits == {k \in 0..Len(all) : \A j \in 1..k : total(j) <= budget}
            longest == CHOOSE k \in fits : \A j \in fits : j <= k
        IN context.conversation = SubSeq(all, 1, longest)

(***************************************************************************)
(* extract (learning_extractor.py 66-95)                                   *)
(*                                                                         *)
(* A text is a sequence of tokens.  Fence is a run of three backticks,     *)
(* JsonTag the letters "json", NL white space, Digit the characters of a   *)
(* number, Prose words that are no JSON, Word(w) the word w, Doc(v) the    *)
(* JSON text of the value v (which holds no backtick), and OpenDoc ...     *)
(* CloseDoc the JSON text of a reply around the content string of its one  *)
(* learning: {"learnings":[{"content":"   and   ","type":"fix",...}],...}. *)
(* Numbers that stand for confidences are hundredths (70 is 0.7).          *)
(***************************************************************************)
Fence == [t |-> "fence"]
JsonTag == [t |-> "json"]
NL == [t |-> "nl"]
Digit == [t |-> "digit"]
Prose == [t |-> "prose"]
Word(w) == [t |-> "word", w |-> w]
Doc(v) == [t |-> "doc", v |-> v]
OpenDoc == [t |-> "open"]
CloseDoc == [t |-> "close"]

\* JSON values as json.loads builds them
JNull == [kind |-> "null"]
JNum(n) == [kind |-> "number", n |-> n]
JStr(s) == [kind |-> "string", s |-> s]
JArr(items) == [kind |-> "array", items |-> items]
JObj(fields) == [kind |-> "object", fields |-> fields]

DefaultMinConfidence == 70     \* min_confidence: float = 0.7

\* line 86: the result substituted for a reply that does not decode
EmptyResult ==
    JObj([learnings |-> JArr(<<>>), session_summary |-> JNull,
          session_outcome |-> JStr(<<Word("unknown")>>)])

Returned(v) == [status |-> "returned", value |-> v]
Raised(e) == [status |-> "raised", error |-> e]

\* pat in text
Contains(txt, pat) ==
    \E i \in 1..(Len(txt) - Len(pat) + 1) : SubSeq(txt, i, i + Len(pat) - 1) = pat

\* text.split(sep): the pieces between the occurrences of sep, left to right
RECURSIVE Split(_, _)
Split(txt, sep) ==
    IF ~Contains(txt, sep) THEN <<txt>>
    ELSE LET i == CHOOSE k \in 1..(Len(txt) - Len(sep) + 1) :
                      /\ SubSeq(txt, k, k + Len(sep) - 1) = sep
                      /\ \A j \in 1..(k - 1) : SubSeq(txt, j, j + Len(sep) - 1) # sep
         IN <<SubSeq(txt, 1, i - 1)>>
                \o Split(SubSeq(txt, i + Len(sep), Len(txt)), sep)

\* text.strip()
RECURSIVE Strip(_)
Strip(txt) ==
    IF txt # <<>> /\ Head(txt) = NL THEN Strip(Tail(txt))
    ELSE IF txt # <<>> /\ txt[Len(txt)] = NL THEN Strip(SubSeq(txt, 1, Len(txt) - 1))
    ELSE txt

\* lines 78-81: the markdown code block clean-up
StripFences(txt) ==
    IF Contains(txt, <<Fence, JsonTag>>)
    THEN Split(Split(txt, <<Fence, JsonTag>>)[2], <<Fence>>)[1]
    ELSE IF Contains(txt, <<Fence>>)
    THEN Split(Split(txt, <<Fence>>)[2], <<Fence>>)[1]
    ELSE txt

\* The characters a JSON string may hold unescaped, among the tokens
StringTokens == {Fence, JsonTag, Digit, Prose}

SnippetLearning(content) ==
    JObj([content |-> JStr(content), type |-> JStr(<<Word("fix")>>),
          scope |-> JStr(<<Word("global")>>), confidence |-> JNum(90)])

SnippetDoc(content) ==
    JObj([learnings |-> JArr(<<SnippetLearning(content)>>),
          session_summary |-> JStr(<<Prose>>),
          session_outcome |-> JStr(<<Word("success")>>)])

\* json.loads(txt) succeeds
IsJson(txt) ==
    \/ Len(txt) = 1 /\ txt[1].t = "doc"
    \/ txt # <<>> /\ \A i \in 1..Len(txt) : txt[i] = Digit
    \/ /\ Len(txt) >= 2
       /\ txt[1] = OpenDoc
       /\ txt[Len(txt)] = CloseDoc
       /\ \A i \in 2..(Len(txt) - 1) : txt[i] \in StringTokens

\* json.loads(txt), for a text that decodes
JsonValue(txt) ==
    IF txt[1].t = "doc" THEN txt[1].v
    ELSE IF txt[1] = Digit THEN JNum(42)
    ELSE SnippetDoc(SubSeq(txt, 2, Len(txt) - 1))

\* lines 83-86
JsonLoads(txt) ==
    IF IsJson(Strip(txt)) THEN JsonValue(Strip(txt)) ELSE EmptyResult

\* line 89: "learnings" in result, or the exception it raises
HasLearnings(r) ==
    CASE r.kind = "object" -> Returned("learnings" \in DOMAIN r.fields)
      [] r.kind = "array" ->
            Returned(\E i \in 1..Len(r.items) :
                        r.items[i] = JStr(<<Word("learnings")>>))
      [] r.kind = "string" -> Returned(Contains(r.s, <<Word("learnings")>>))
      [] OTHER -> Raised("TypeError")

\* line 92 with > in the place of >=
KeepAboveOnly(l, minc) ==
    IF l.kind # "object" THEN Raised("AttributeError")
    ELSE LET c == IF "confidence" \in DOMAIN l.fields THEN l.fields.confidence
                  ELSE JNum(0)
         IN IF c.kind # "number" THEN Raised("TypeError")
            ELSE Returned(c.n > minc)

\* line 92: l.get("confidence", 0) >= min_confidence for one item, or the
\* exception it raises
Keep(l, minc) ==
    IF l.kind # "object" THEN Raised("AttributeError")
    ELSE LET c == IF "confidence" \in DOMAIN l.fields THEN l.fields.confidence
                  ELSE JNum(0)
         IN IF c.kind # "number" THEN Raised("TypeError")
            ELSE Returned(c.n >= minc)

\* lines 90-93: the list comprehension over result["learnings"]
RECURSIVE FilterItems(_, _)
FilterItems(items, minc) ==
    IF items = <<>> THEN Returned(<<>>)
    ELSE LET k == Keep(Head(items), minc)
             rest == FilterItems(Tail(items), minc)
         IN IF k.status = "raised" THEN k
            ELSE IF rest.status = "raised" THEN rest
            ELSE Returned((IF k.value THEN <<Head(items)>> ELSE <<>>) \o rest.value)

\* for l in result["learnings"]: the items the loop visits, or the exception
Iterate(v) ==
    CASE v.kind = "array" -> Returned(v.items)
      [] v.kind = "string" /\ v.s = <<>> -> Returned(<<>>)
      [] v.kind = "string" /\ v.s # <<>> -> Raised("AttributeError")
      [] OTHER -> Raised("TypeError")

\* lines 88-95
FilterByConfidence(r, minc) ==
    LET has == HasLearnings(r)
    IN IF has.status = "raised" THEN has
       ELSE IF ~has.value THEN Returned(r)
       ELSE IF r.kind # "object" THEN Raised("TypeError")
       ELSE LET its == Iterate(r.fields.learnings)
            IN IF its.status = "raised" THEN its
               ELSE LET kept == FilterItems(its.value, minc)
                    IN IF kept.status = "raised" THEN kept
                       ELSE Returned(JObj([r.fields EXCEPT
                                             !.learnings = JArr(kept.value)]))

\* lines 75-95 on a reply text
ExtractReply(txt, minc) == FilterByConfidence(JsonLoads(StripFences(txt)), minc)

\* The replies of the language model
Learning(type, conf) ==
    JObj([content |-> JStr(<<Prose>>), type |-> JStr(<<Word(type)>>),
          scope |-> JStr(<<Word("global")>>), confidence |-> conf])

ItemValues ==
    {Learning("fix", JNum(50)), Learning("fix", JNum(70)), Learning("pattern", JNum(90)),
     Learning("bogus", JNum(90)), Learning("fix", JNum(150)),
     Learning("fix", JStr(<<Word("high")>>)),
     JObj([content |-> JStr(<<Prose>>), type |-> JStr(<<Word("fix")>>),
           scope |-> JStr(<<Word("global")>>)]),
     JNum(7)}

FullDoc(items) ==
    JObj([learnings |-> JArr(items), session_summary |-> JStr(<<Prose>>),
          session_outcome |-> JStr(<<Word("success")>>)])

OtherValues ==
    {JObj([session_summary |-> JStr(<<Prose>>)]),
     JObj([learnings |-> JArr(<<Learning("fix", JNum(90))>>)]),
     JObj([learnings |-> JNull, session_summary |-> JNull,
           session_outcome |-> JStr(<<Word("failure")>>)]),
     JArr(<<>>), JArr(<<JNum(1)>>), JStr(<<Word("learnings")>>), JStr(<<Prose>>), JNull}

JsonDocs ==
    {<<Doc(FullDoc(items))>> : items \in SeqsUpTo(ItemValues, MaxLearnings)}
        \cup {<<Doc(v)>> : v \in OtherValues}
        \cup {<<Digit>>}
        \cup {<<OpenDoc>> \o c \o <<CloseDoc>> : c \in SeqsUpTo(StringTokens, MaxSnippet)}

NonJsonTexts == {<<>>, <<Prose>>, <<OpenDoc, Prose>>, <<Prose, NL, Doc(FullDoc(<<>>))>>}

Wrappings == {"raw", "json", "bare", "prose"}

WrapJson(j) == <<Fence, JsonTag, NL>> \o j \o <<NL, Fence>>
WrapBare(j) == <<Fence, NL>> \o j \o <<NL, Fence>>

Wrapped(j, w) ==
    CASE w = "raw" -> j
      [] w = "json" -> WrapJson(j)
      [] w = "bare" -> WrapBare(j)
      [] w = "prose" -> <<Prose, NL>> \o WrapJson(j) \o <<NL, Prose>>

MinConfidenceValues == {0, DefaultMinConfidence}

ExIdle ==
    /\ min_confidence = DefaultMinConfidence
    /\ doc = <<>>
    /\ wrap = "raw"
    /\ text = <<>>
    /\ result = None
    /\ xpc = "idle"
    /\ outcome = None

ExInit ==
    /\ min_confidence \in MinConfidenceValues
    /\ doc = <<>>
    /\ wrap = "raw"
    /\ text = <<>>
    /\ result = None
    /\ xpc = "invoke"
    /\ outcome = None

\* lines 68-75: the language model answers
Invoke ==
    /\ xpc = "invoke"
    /\ \E j \in JsonDocs \cup NonJsonTexts :
         \E w \in (IF j \in JsonDocs THEN Wrappings ELSE {"raw"}) :
            /\ doc' = j
            /\ wrap' = w
            /\ text' = Wrapped(j, w)
    /\ xpc' = "strip"
    /\ UNCHANGED <<min_confidence, result, outcome>>
    /\ UNCHANGED notEx

\* lines 68-73: the call to the language model raises
InvokeFails ==
    /\ xpc = "invoke"
    /\ outcome' = Raised("APIError")
    /\ xpc' = "done"
    /\ UNCHANGED <<min_confidence, doc, wrap, text, result>>
    /\ UNCHANGED notEx

\* lines 77-81
CleanUp ==
    /\ xpc = "strip"
    /\ text' = StripFences(text)
    /\ xpc' = "decode"
    /\ UNCHANGED <<min_confidence, doc, wrap, result, outcome>>
    /\ UNCHANGED notEx

\* lines 83-86
Decode ==
    /\ xpc = "decode"
    /\ result' = JsonLoads(text)
    /\ xpc' = "filter"
    /\ UNCHANGED <<min_confidence, doc, wrap, text, outcome>>
    /\ UNCHANGED notEx

\* lines 88-95
Filter ==
    /\ xpc = "filter"
    /\ outcome' = FilterByConfidence(result, min_confidence)
    /\ xpc' = "done"
    /\ UNCHANGED <<min_confidence, doc, wrap, text, result>>
    /\ UNCHANGED notEx

ExNext ==
    \/ Invoke
    \/ InvokeFails
    \/ CleanUp
    \/ Decode
    \/ Filter

(***************************************************************************)
(* Claims about extract                                                    *)
(***************************************************************************)
RequiredKeys == {"learnings", "session_summary", "session_outcome"}

\* extract has run past the decoding of a reply
Parsed == xpc = "done" /\ result # None

\* C2: a reply that is no valid JSON, or is JSON but no object, or is an object
\* without the required keys, makes extract return the empty default result;
\* no exception escapes.
C2_MalformedReplyGivesEmptyResult ==
    (/\ Parsed
     /\ \/ ~IsJson(Strip(text))
        \/ result.kind # "object"
        \/ ~(RequiredKeys \subseteq DOMAIN result.fields))
        => outcome = Returned(EmptyResult)

\* The confidence line 92 reads for a learning
ConfidenceOf(l) ==
    IF "confidence" \in DOMAIN l.fields THEN l.fields.confidence.n ELSE 0

\* C3: the learnings extract returns are exactly the decoded learnings whose
\* confidence is >= min_confidence, in their original order and unchanged.
C3_ConfidenceFilterExact ==
    (/\ Parsed
     /\ outcome.status = "returned"
     /\ result.kind = "object"
     /\ "learnings" \in DOMAIN result.fields)
        => LET dec == result.fields.learnings.items
               ret == outcome.value.fields.learnings.items
               keep == {i \in 1..Len(dec) : ConfidenceOf(dec[i]) >= min_confidence}
               nth(k) == CHOOSE i \in keep : Cardinality({j \in keep : j <= i}) = k
           IN /\ Len(ret) = Cardinality(keep)
              /\ \A k \in 1..Len(ret) : ret[k] = dec[nth(k)]

\* C3 witness: a reply of three learnings, one below the threshold between two
\* at or above it, one of them exactly at the threshold, has been filtered.
C3_Witness ==
    /\ Parsed
    /\ outcome.status = "returned"
    /\ result.kind = "object"
    /\ "learnings" \in DOMAIN result.fields
    /\ min_confidence = DefaultMinConfidence
    /\ LET dec == result.fields.learnings.items
       IN /\ Len(dec) = 3
          /\ ConfidenceOf(dec[1]) = 90
          /\ ConfidenceOf(dec[2]) = 50
          /\ ConfidenceOf(dec[3]) = DefaultMinConfidence
    /\ Len(outcome.value.fields.learnings.items) = 2

\* The learning schema (ExtractedLearning, lines 6-12, and the prompt's enums)
Conforms(l) ==
    /\ l.kind = "object"
    /\ {"content", "type", "scope", "confidence"} \subseteq DOMAIN l.fields
    /\ l.fields.content.kind = "string"
    /\ l.fields.type \in {JStr(<<Word(w)>>) :
                             w \in {"fix", "pattern", "antipattern", "convention",
                                    "preference"}}
    /\ l.fields.scope \in {JStr(<<Word(w)>>) : w \in {"global", "project", "language"}}
    /\ l.fields.confidence.kind = "number"
    /\ l.fields.confidence.n >= 0
    /\ l.fields.confidence.n <= 100

\* C4: when the reply decodes, each learning is validated on its own: extract
\* does not raise, every returned learning conforms to the schema, and the
\* conforming learnings at or above the threshold are all returned, in order.
C4_PerItemSchemaValidation ==
    (/\ Parsed
     /\ IsJson(Strip(text))
     /\ result.kind = "object"
     /\ "learnings" \in DOMAIN result.fields
     /\ result.fields.learnings.kind = "array")
        => /\ outcome.status = "returned"
           /\ LET Valid(l) == Conforms(l) /\ l.fields.confidence.n >= min_confidence
              IN outcome.value.fields.learnings.items
                    = SelectSeq(result.fields.learnings.items, Valid)

\* C7: for a JSON document J, the reply J, the reply J in a ```json block and
\* the reply J in an untagged ``` block give the same result.
C7_FencedRepliesParseAlike ==
    (/\ Parsed
     /\ doc \in JsonDocs
     /\ wrap \in {"json", "bare"})
        => outcome = ExtractReply(doc, min_confidence)


(***************************************************************************)
(* VectorStore (embeddings.py 22-82)                                       *)
(*                                                                         *)
(* A Python float (a double) is an integer k.  The single-precision values *)
(* are the multiples of F32Step, so an odd k needs more precision than the *)
(* format 'f' keeps.  A blob is a sequence of bytes, four per element; the *)
(* bit pattern of a single-precision value is modelled by the little-endian*)
(* two's-complement bytes of its index k / F32Step, which like IEEE-754 is *)
(* one-to-one.  Dot products are exact.  All vectors have the dimension of *)
(* the one embedding model (EmbeddingService.dimension).                   *)
(***************************************************************************)
F32Step == 2
ByteRange == 256

\* struct.pack('f', x): the nearest single-precision value, ties to even
RoundF32(k) ==
    IF k % F32Step = 0 THEN k
    ELSE LET lo == k - (k % F32Step)
             hi == lo + F32Step
         IN IF (lo \div F32Step) % 2 = 0 THEN lo ELSE hi

\* the four bytes of one packed element, low byte first
Pack32(k) ==
    LET m0 == RoundF32(k) \div F32Step
        m1 == m0 \div ByteRange
        m2 == m1 \div ByteRange
        m3 == m2 \div ByteRange
    IN <<m0 % ByteRange, m1 % ByteRange, m2 % ByteRange, m3 % ByteRange>>

\* struct.unpack of one element's four bytes
Unpack32(b) ==
    LET top == IF b[4] >= ByteRange \div 2 THEN b[4] - ByteRange ELSE b[4]
    IN (b[1] + ByteRange * (b[2] + ByteRange * (b[3] + ByteRange * top))) * F32Step

\* lines 44-45: struct.pack(f'{len(embedding)}f', *embedding.tolist())
RECURSIVE Serialize(_)
Serialize(embedding) ==
    IF embedding = <<>> THEN <<>>
    ELSE Pack32(Head(embedding)) \o Serialize(Tail(embedding))

\* lines 47-49: count = len(data) // 4; struct.unpack(f'{count}f', data)
Deserialize(data) ==
    LET count == Len(data) \div 4
    IN [i \in 1..count |-> Unpack32(SubSeq(data, 4 * i - 3, 4 * i))]

\* a plain INSERT on a table without the primary key
InsertOnly(table, id, blob) == Append(table, [id |-> id, embedding |-> blob])

\* INSERT OR REPLACE on a table whose primary key is the id (lines 52-55, 59-62):
\* a row with the same id is deleted, the new row gets a fresh rowid
InsertOrReplace(table, id, blob) ==
    LET NotId(r) == r.id # id
    IN Append(SelectSeq(table, NotId), [id |-> id, embedding |-> blob])

\* np.dot(query_embedding, embedding)
RECURSIVE Dot(_, _)
Dot(u, v) ==
    IF u = <<>> \/ v = <<>> THEN 0
    ELSE Head(u) * Head(v) + Dot(Tail(u), Tail(v))

\* lines 72-76: one (learning_id, similarity) pair per row
Scores(rows, query) ==
    [i \in 1..Len(rows) |->
        [id |-> rows[i].id, score |-> Dot(query, Deserialize(rows[i].embedding))]]

\* line 78 without reverse=True
RECURSIVE SortAscending(_)
SortAscending(rs) ==
    IF rs = <<>> THEN <<>>
    ELSE LET rest == SortAscending(SubSeq(rs, 1, Len(rs) - 1))
             x == rs[Len(rs)]
             k == Cardinality({i \in 1..Len(rest) : rest[i].score <= x.score})
         IN SubSeq(rest, 1, k) \o <<x>> \o SubSeq(rest, k + 1, Len(rest))

\* line 78: results.sort(key=lambda x: x[1], reverse=True), a stable sort
RECURSIVE SortByScore(_)
SortByScore(rs) ==
    IF rs = <<>> THEN <<>>
    ELSE LET rest == SortByScore(SubSeq(rs, 1, Len(rs) - 1))
             x == rs[Len(rs)]
             k == Cardinality({i \in 1..Len(rest) : rest[i].score >= x.score})
         IN SubSeq(rest, 1, k) \o <<x>> \o SubSeq(rest, k + 1, Len(rest))

\* lines 65-79
SearchSimilarLearnings(rows, query, limit) ==
    IF rows = <<>> THEN <<>>
    ELSE Take(SortByScore(Scores(rows, query)), limit)

LearningIds == {"a", "b", "c"}
SessionIds == {"s"}
Kinds == {"learning", "session"}
IdsOf(kind) == IF kind = "learning" THEN LearningIds ELSE SessionIds

\* The vectors passed in: some elements are single-precision values, some not
VectorValues == {<<4, 0>>, <<0, 4>>, <<3, 1>>, <<-3, 2>>}

NoCall == [op |-> "none"]

StIdle ==
    /\ learning_embeddings = <<>>
    /\ session_embeddings = <<>>
    /\ sent = [k \in Kinds |-> [i \in IdsOf(k) |-> None]]
    /\ call = NoCall
    /\ results = None

\* lines 23-42: the tables exist and are empty
StInit == StIdle

HasRow(table, id) == \E i \in 1..Len(table) : table[i].id = id

\* lines 51-56
InsertLearningEmbedding ==
    \E id \in LearningIds, v \in VectorValues :
        /\ learning_embeddings' = InsertOrReplace(learning_embeddings, id, Serialize(v))
        /\ sent' = [sent EXCEPT !["learning"][id] = v]
        /\ call' = [op |-> "put", kind |-> "learning", id |-> id,
                    replaced |-> HasRow(learning_embeddings, id)]
        /\ results' = None
        /\ UNCHANGED session_embeddings
        /\ UNCHANGED notSt

\* lines 58-63
InsertSessionEmbedding ==
    \E id \in SessionIds, v \in VectorValues :
        /\ session_embeddings' = InsertOrReplace(session_embeddings, id, Serialize(v))
        /\ sent' = [sent EXCEPT !["session"][id] = v]
        /\ call' = [op |-> "put", kind |-> "session", id |-> id,
                    replaced |-> HasRow(session_embeddings, id)]
        /\ results' = None
        /\ UNCHANGED learning_embeddings
        /\ UNCHANGED notSt

\* lines 65-79
Search ==
    \E q \in VectorValues, limit \in 0..MaxLimit :
        /\ results' = SearchSimilarLearnings(learning_embeddings, q, limit)
        /\ call' = [op |-> "search", query |-> q, limit |-> limit]
        /\ UNCHANGED <<learning_embeddings, session_embeddings, sent>>
        /\ UNCHANGED notSt

StNext ==
    \/ InsertLearningEmbedding
    \/ InsertSessionEmbedding
    \/ Search


(***************************************************************************)
(* Claims about the VectorStore                                            *)
(***************************************************************************)
TableOf(kind) == IF kind = "learning" THEN learning_embeddings ELSE session_embeddings

RowsWithId(table, id) == {i \in 1..Len(table) : table[i].id = id}

\* C5: a search over N records returns min(limit, N) pairs (id, dot product of
\* the query with the vector stored for id), in non-increasing order of score,
\* and no record left out scores higher than a returned one; an empty store
\* gives the empty sequence.
C5_SearchReturnsTopLimit ==
    call.op = "search" =>
        LET rows == learning_embeddings
            ScoreOf(id) ==
                LET r == CHOOSE i \in 1..Len(rows) : rows[i].id = id
                IN Dot(call.query, Deserialize(rows[r].embedding))
            returned == {results[i].id : i \in 1..Len(results)}
            stored == {rows[i].id : i \in 1..Len(rows)}
        IN /\ Len(results) = Min(call.limit, Len(rows))
           /\ Cardinality(returned) = Len(results)
           /\ returned \subseteq stored
           /\ \A i \in 1..Len(results) : results[i].score = ScoreOf(results[i].id)
           /\ \A i, j \in 1..Len(results) :
                i < j => results[i].score >= results[j].score
           /\ \A id \in stored \ returned :
                \A i \in 1..Len(results) : ScoreOf(id) <= results[i].score
           /\ (rows = <<>> => results = <<>>)

\* C5 witness: a search with limit 2 over three records of three different
\* scores has returned two of them.
C5_Witness ==
    /\ call.op = "search"
    /\ call.limit = 2
    /\ Len(learning_embeddings) = 3
    /\ Len(results) = 2
    /\ results[1].score > results[2].score
    /\ \E i \in 1..3 :
         Dot(call.query, Deserialize(learning_embeddings[i].embedding))
            < results[2].score

\* every element is a single-precision value
IsSinglePrecision(v) == \A i \in 1..Len(v) : v[i] % F32Step = 0

SelectLimit == 100        \* LIMIT 100
DefaultBatchSize == 32    \* --batch-size default

SessionOrder == <<"s1", "s2">>       \* the rows of the sessions table
SessionSet == {SessionOrder[i] : i \in 1..Len(SessionOrder)}

GoodItem(conf) == Learning("fix", JNum(conf))
NoContentItem ==
    JObj([type |-> JStr(<<Word("fix")>>), scope |-> JStr(<<Word("global")>>),
          confidence |-> JNum(90)])

CliReplies ==
    {<<Doc(FullDoc(<<GoodItem(50)>>))>>,
     <<Doc(JObj([learnings |-> JArr(<<GoodItem(90)>>)]))>>,
     WrapJson(<<Doc(FullDoc(<<GoodItem(90), GoodItem(50), GoodItem(70)>>))>>),
     <<Doc(FullDoc(<<GoodItem(90), NoContentItem>>))>>,
     <<Doc(JArr(<<>>))>>,
     <<Prose>>}

\* line 180: what extractor.extract gives back or raises
ExtractOutcomes ==
    {Raised("APIError")} \cup {ExtractReply(t, DefaultMinConfidence) : t \in CliReplies}

HasLearningRow(rows, sid) == \E i \in 1..Len(rows) : rows[i].session_id = sid

\* the same query without its WHERE l.id IS NULL
SelectEverySession(rows) == Take(SessionOrder, SelectLimit)

\* lines 127-132: the sessions that have no learning row, at most 100
SelectUnprocessed(rows) ==
    LET NoRow(sid) == ~HasLearningRow(rows, sid)
    IN Take(SelectSeq(SessionOrder, NoRow), SelectLimit)

\* lines 186-200: the rows inserted for the learnings of one result
NewRows(rows, sid, items, callNo) ==
    [i \in 1..Len(items) |->
        [id |-> Len(rows) + i, session_id |-> sid, call |-> callNo]]

\* line 186: result.get("learnings", [])
LearningsOf(value) ==
    IF "learnings" \in DOMAIN value.fields THEN value.fields.learnings.items ELSE <<>>

\* line 203: result.get("session_summary") is truthy
HasSummary(value) ==
    /\ "session_summary" \in DOMAIN value.fields
    /\ value.fields.session_summary.kind = "string"
    /\ value.fields.session_summary.s # <<>>

\* lines 186, 194: saving raises (result.get on a value that is no dict,
\* learning["content"] on a learning without content)
SaveRaises(value) ==
    IF value.kind # "object" THEN TRUE
    ELSE \E i \in 1..Len(LearningsOf(value)) :
            "content" \notin DOMAIN LearningsOf(value)[i].fields

\* embedder.embed_batch: one unit vector per text, the same for the same text
EmbedText(kind) == IF kind = "learning" THEN <<4, 0>> ELSE <<0, 4>>

\* lines 71-72, 94-95: the puts of one chunk, in order
RECURSIVE InsertBatch(_, _, _)
InsertBatch(table, ids, kind) ==
    IF ids = <<>> THEN table
    ELSE InsertBatch(InsertOrReplace(table, Head(ids), Serialize(EmbedText(kind))),
                     Tail(ids), kind)

\* lines 66-67, 89-90: the chunk that starts at row pos
Chunk(rows, pos, size) == SubSeq(rows, pos, Min(pos + size - 1, Len(rows)))

ChunkStarts(rows, size) == {p \in 1..Len(rows) : (p - 1) % size = 0}

\* line 63: SELECT id, content FROM learnings
LearningRowIds(rows) == [i \in 1..Len(rows) |-> rows[i].id]

\* lines 80-86: the sessions that have a user or assistant message
SessionRowIds == SessionOrder

BatchSizes == {1, 2}
EmbedTypes == {"learnings", "sessions", "all"}

CliIdle ==
    /\ sessions = [sid \in SessionSet |-> None]
    /\ learnings = <<>>
    /\ rpc = "idle"
    /\ queue = <<>>
    /\ etype = "all"
    /\ batch_size = DefaultBatchSize
    /\ erows = <<>>
    /\ epos = 1
    /\ extract_calls = 0
    /\ used_session_id = FALSE
    /\ run_units = {}
    /\ run_done = {}
    /\ run_failed = {}
    /\ run_wrote = {}
    /\ run_end = "none"

CliInit == CliIdle

cliStore == <<learning_embeddings, session_embeddings>>
notCli == <<ctxVars, exVars, sent, call, results>>

BeginRun(units) ==
    /\ run_units' = units
    /\ run_done' = {}
    /\ run_failed' = {}
    /\ run_wrote' = {}
    /\ run_end' = "running"

\* lines 126-141: extract --all with sessions to process
StartExtractAll ==
    /\ rpc = "idle"
    /\ LET sel == SelectUnprocessed(learnings)
       IN /\ sel # <<>>
          /\ extract_calls + Len(sel) <= MaxCalls
          /\ queue' = sel
          /\ BeginRun({sel[i] : i \in 1..Len(sel)})
    /\ rpc' = "extract"
    /\ UNCHANGED <<sessions, learnings, etype, batch_size, erows, epos, extract_calls,
                   used_session_id, cliStore, notCli>>

\* lines 126-139: extract --all with nothing to process
NoSessionsToProcess ==
    /\ rpc = "idle"
    /\ SelectUnprocessed(learnings) = <<>>
    /\ BeginRun({})
    /\ rpc' = "exit"
    /\ UNCHANGED <<sessions, learnings, queue, etype, batch_size, erows, epos,
                   extract_calls, used_session_id, cliStore, notCli>>

\* lines 124-125, 141: extract --session-id
StartExtractOne ==
    /\ rpc = "idle"
    /\ extract_calls + 1 <= MaxCalls
    /\ \E sid \in SessionSet :
         /\ queue' = <<sid>>
         /\ BeginRun({sid})
    /\ used_session_id' = TRUE
    /\ rpc' = "extract"
    /\ UNCHANGED <<sessions, learnings, etype, batch_size, erows, epos, extract_calls,
                   cliStore, notCli>>

\* lines 143-183: extract raises for the session, which is skipped
ExtractSkips ==
    /\ rpc = "extract"
    /\ queue # <<>>
    /\ \E o \in ExtractOutcomes : o.status = "raised"
    /\ extract_calls' = extract_calls + 1
    /\ run_failed' = run_failed \cup {Head(queue)}
    /\ queue' = Tail(queue)
    /\ UNCHANGED <<sessions, learnings, rpc, etype, batch_size, erows, epos,
                   used_session_id, run_units, run_done, run_wrote, run_end,
                   cliStore, notCli>>

\* lines 143-210: the result is saved and committed
ExtractSaves ==
    /\ rpc = "extract"
    /\ queue # <<>>
    /\ \E o \in ExtractOutcomes :
         /\ o.status = "returned"
         /\ ~SaveRaises(o.value)
         /\ learnings' = learnings \o NewRows(learnings, Head(queue),
                                             LearningsOf(o.value), extract_calls + 1)
         /\ sessions' = IF HasSummary(o.value)
                        THEN [sessions EXCEPT ![Head(queue)] =
                                [summary |-> o.value.fields.session_summary,
                                 outcome |-> o.value.fields.session_outcome]]
                        ELSE sessions
         /\ run_wrote' = IF LearningsOf(o.value) # <<>> \/ HasSummary(o.value)
                         THEN run_wrote \cup {Head(queue)} ELSE run_wrote
    /\ extract_calls' = extract_calls + 1
    /\ run_done' = run_done \cup {Head(queue)}
    /\ queue' = Tail(queue)
    /\ UNCHANGED <<rpc, etype, batch_size, erows, epos, used_session_id, run_units,
                   run_failed, run_end, cliStore, notCli>>

\* lines 186-200: saving raises; the exception ends the command and the rows
\* inserted for this session since the last commit are lost
ExtractSaveRaises ==
    /\ rpc = "extract"
    /\ queue # <<>>
    /\ \E o \in ExtractOutcomes : o.status = "returned" /\ SaveRaises(o.value)
    /\ extract_calls' = extract_calls + 1
    /\ queue' = <<>>
    /\ rpc' = "exit"
    /\ run_end' = "save_error"
    /\ UNCHANGED <<sessions, learnings, etype, batch_size, erows, epos,
                   used_session_id, run_units, run_done, run_failed, run_wrote,
                   cliStore, notCli>>

\* lines 212-213
FinishExtract ==
    /\ rpc = "extract"
    /\ queue = <<>>
    /\ rpc' = "exit"
    /\ run_end' = "finished"
    /\ UNCHANGED <<sessions, learnings, queue, etype, batch_size, erows, epos,
                   extract_calls, used_session_id, run_units, run_done, run_failed,
                   run_wrote, cliStore, notCli>>

\* the chunks a run of embed has to process
EmbedUnits(type, size) ==
    (IF type \in {"learnings", "all"}
     THEN {<<"learning", p>> : p \in ChunkStarts(LearningRowIds(learnings), size)}
     ELSE {})
    \cup
    (IF type \in {"sessions", "all"}
     THEN {<<"session", p>> : p \in ChunkStarts(SessionRowIds, size)}
     ELSE {})

\* lines 46-63, 78-86: embed starts and reads the rows of its first table
StartEmbed ==
    /\ rpc = "idle"
    /\ \E type \in EmbedTypes, size \in BatchSizes :
         /\ etype' = type
         /\ batch_size' = size
         /\ rpc' = IF type = "sessions" THEN "embed_sessions" ELSE "embed_learnings"
         /\ erows' = IF type = "sessions" THEN SessionRowIds
                     ELSE LearningRowIds(learnings)
         /\ BeginRun(EmbedUnits(type, size))
    /\ epos' = 1
    /\ UNCHANGED <<sessions, learnings, queue, extract_calls, used_session_id,
                   cliStore, notCli>>

\* lines 66-74: one chunk of learnings is embedded and stored
EmbedLearningsChunk ==
    /\ rpc = "embed_learnings"
    /\ epos <= Len(erows)
    /\ learning_embeddings' =
          InsertBatch(learning_embeddings, Chunk(erows, epos, batch_size), "learning")
    /\ run_done' = run_done \cup {<<"learning", epos>>}
    /\ epos' = epos + batch_size
    /\ UNCHANGED <<sessions, learnings, rpc, queue, etype, batch_size, erows,
                   extract_calls, used_session_id, run_units, run_failed, run_wrote,
                   run_end, session_embeddings, notCli>>

\* lines 89-97: one chunk of sessions is embedded and stored
EmbedSessionsChunk ==
    /\ rpc = "embed_sessions"
    /\ epos <= Len(erows)
    /\ session_embeddings' =
          InsertBatch(session_embeddings, Chunk(erows, epos, batch_size), "session")
    /\ run_done' = run_done \cup {<<"session", epos>>}
    /\ epos' = epos + batch_size
    /\ UNCHANGED <<sessions, learnings, rpc, queue, etype, batch_size, erows,
                   extract_calls, used_session_id, run_units, run_failed, run_wrote,
                   run_end, learning_embeddings, notCli>>

\* lines 69, 92: embed_batch raises; nothing catches it and the command ends
EmbedBatchRaises ==
    /\ rpc \in {"embed_learnings", "embed_sessions"}
    /\ epos <= Len(erows)
    /\ run_failed' = run_failed \cup
          {<<IF rpc = "embed_learnings" THEN "learning" ELSE "session", epos>>}
    /\ rpc' = "exit"
    /\ run_end' = "upstream_error"
    /\ UNCHANGED <<sessions, learnings, queue, etype, batch_size, erows, epos,
                   extract_calls, used_session_id, run_units, run_done, run_wrote,
                   cliStore, notCli>>

\* lines 75-86: the learnings are done and the sessions follow
EmbedNextTable ==
    /\ rpc = "embed_learnings"
    /\ epos > Len(erows)
    /\ etype = "all"
    /\ rpc' = "embed_sessions"
    /\ erows' = SessionRowIds
    /\ epos' = 1
    /\ UNCHANGED <<sessions, learnings, queue, etype, batch_size, extract_calls,
                   used_session_id, run_units, run_done, run_failed, run_wrote,
                   run_end, cliStore, notCli>>

\* lines 101-103
FinishEmbed ==
    /\ \/ rpc = "embed_learnings" /\ etype = "learnings"
       \/ rpc = "embed_sessions"
    /\ epos > Len(erows)
    /\ rpc' = "exit"
    /\ run_end' = "finished"
    /\ UNCHANGED <<sessions, learnings, queue, etype, batch_size, erows, epos,
                   extract_calls, used_session_id, run_units, run_done, run_failed,
                   run_wrote, cliStore, notCli>>

\* the process of the command ends: its locals are gone
Exit ==
    /\ rpc = "exit"
    /\ rpc' = "idle"
    /\ queue' = <<>>
    /\ etype' = "all"
    /\ batch_size' = DefaultBatchSize
    /\ erows' = <<>>
    /\ epos' = 1
    /\ run_units' = {}
    /\ run_done' = {}
    /\ run_failed' = {}
    /\ run_wrote' = {}
    /\ run_end' = "none"
    /\ UNCHANGED <<sessions, learnings, extract_calls, used_session_id, cliStore, notCli>>

CliNext ==
    \/ StartExtractAll
    \/ NoSessionsToProcess
    \/ StartExtractOne
    \/ ExtractSkips
    \/ ExtractSaves
    \/ ExtractSaveRaises
    \/ FinishExtract
    \/ StartEmbed
    \/ EmbedLearningsChunk
    \/ EmbedSessionsChunk
    \/ EmbedBatchRaises
    \/ EmbedNextTable
    \/ FinishEmbed
    \/ Exit

\* the runs of extract alone
ExtractRunsNext ==
    \/ StartExtractAll
    \/ NoSessionsToProcess
    \/ StartExtractOne
    \/ ExtractSkips
    \/ ExtractSaves
    \/ ExtractSaveRaises
    \/ FinishExtract
    \/ Exit


(***************************************************************************)
(* Claims about the cli                                                    *)
(***************************************************************************)

\* C8: when the language-model call or the embedding call raises for one unit
\* (a session of run_extract, a chunk of run_embed), the unit is skipped and
\* every other unit of the batch is still processed; nothing is written for a
\* session whose extraction failed.
C8_UpstreamFailureSkipsOneUnit ==
    (rpc = "exit" /\ run_end # "save_error")
        => /\ run_units \subseteq run_done \cup run_failed
           /\ run_failed \cap run_wrote = {}

\* C10: with only extract --all runs, a session in the queue has no learning
\* row, and the learning rows of a session all come from one call of extract.
C10_AllRunsExtractOnce ==
    ~used_session_id =>
        /\ \A i \in 1..Len(queue) : ~HasLearningRow(learnings, queue[i])
        /\ \A i, j \in 1..Len(learnings) :
              learnings[i].session_id = learnings[j].session_id
                 => learnings[i].call = learnings[j].call

\* C10 witness: a later extract --all run is under way for the session whose
\* first extraction failed, and leaves out the session that got two rows.
C10_Witness ==
    /\ ~used_session_id
    /\ rpc = "extract"
    /\ run_units = {"s2"}
    /\ queue = <<"s2">>
    /\ extract_calls >= 2
    /\ Cardinality({i \in 1..Len(learnings) : learnings[i].session_id = "s1"}) = 2
    /\ ~HasLearningRow(learnings, "s2")


(***************************************************************************)
(* Specifications, one per component                                       *)
(***************************************************************************)
InitCtx == CtxInit /\ ExIdle /\ StIdle /\ CliIdle

SpecCtx == InitCtx /\ [][CtxNext]_vars

InitExtract == ExInit /\ CtxIdle /\ StIdle /\ CliIdle

SpecExtract == InitExtract /\ [][ExNext]_vars

InitStore == StInit /\ CtxIdle /\ ExIdle /\ CliIdle

SpecStore == InitStore /\ [][StNext]_vars

InitCli == CliInit /\ CtxIdle /\ ExIdle /\ StIdle

SpecCli == InitCli /\ [][CliNext]_vars

SpecExtractRuns == InitCli /\ [][ExtractRunsNext]_vars

====
